---- MODULE Spec2Model ----
(***************************************************************************)
(* ChatterTV tiered upload-and-delivery engine.                            *)
(*                                                                         *)
(* The model covers the upload client (upload modal: strategy selection,   *)
(* the three transfer strategies and their fallbacks), the server's        *)
(* ingest, streaming and delete handlers, and the local / S3 stores they   *)
(* act on.                                                                 *)
(***************************************************************************)
EXTENDS Integers, Sequences, FiniteSets, TLC

\* ------------------------------------------------------------------------
\* Bounds of the model
\* ------------------------------------------------------------------------

\* number of upload mutations one run starts
MaxUploads == 1

\* upload requests the server receives
MaxRequests == 2

\* chunks of the largest object streamed from S3
MaxChunks == 5

\* ------------------------------------------------------------------------
\* Program constants
\* ------------------------------------------------------------------------

MiB == 1024 * 1024

\* server: routes.ts MAX_FILE_SIZE (default of the environment variable)
MAX_FILE_SIZE == 500 * 1024 * 1024

\* client: DEPLOYMENT_CONFIG.maxFileSize and devMaxFileSize
maxFileSize == 500 * 1024 * 1024

\* client: thresholds of uploadMutation.mutationFn
MEDIUM_FILE_THRESHOLD == 50 * 1024 * 1024
LARGE_FILE_THRESHOLD == 150 * 1024 * 1024

\* client: uploadDirectlyToS3
MULTIPART_THRESHOLD == 100 * 1024 * 1024

\* server: getDirectBrowserUploadConfig, presigned POST above this size
PRESIGNED_POST_THRESHOLD == 150 * 1024 * 1024

\* the three transfer strategies, by the names the design gives them
ServerRelayed == "ServerRelayed"
ServerAssistedDirect == "ServerAssistedDirect"
BrowserDirectMultipart == "BrowserDirectMultipart"
Strategies == {ServerRelayed, ServerAssistedDirect, BrowserDirectMultipart}

\* file sizes a user may pick: every threshold, one byte either side of it
FileSizes ==
    { 10 * MiB, 90 * MiB, 300 * MiB }
    \cup { t + d : t \in { MEDIUM_FILE_THRESHOLD, MULTIPART_THRESHOLD,
                           LARGE_FILE_THRESHOLD, maxFileSize },
                   d \in { -1, 0, 1 } }

\* bytes the multipart/form-data envelope adds to a relayed file
FormOverheads == { 512 }

\* file sizes of the system model: one per entry point, and one refused
UploadSizes ==
    { 10 * MiB, 90 * MiB, 120 * MiB, 300 * MiB, maxFileSize + 1 }

NoFile == 0

\* ------------------------------------------------------------------------
\* State
\* ------------------------------------------------------------------------

VARIABLES
    USE_S3,         \* s3.ts: S3 integration enabled (fixed at start-up)
    localFiles,     \* names of the files in the uploads directory
    remoteObjects,  \* names n of the objects uploads/n in the bucket
    videos,         \* MemStorage.videos
    nextVideoId,    \* MemStorage.nextVideoId
    last,           \* history: the last request the server answered
    signedCount,    \* history: signed URLs / sessions issued to this mutation
    selectedFile,   \* upload modal: size of the selected file, NoFile if none
    pc,             \* upload modal: position of uploadMutation.mutationFn
    attempts,       \* history: strategies this mutation has attempted, in order
    curKey,         \* upload modal: key handed out by the server for this attempt
    uploadsStarted, \* number of mutations started
    del,            \* in-flight DELETE /api/videos/:id request
    selIn,          \* strategy selection harness: a pair of sizes
    selOut,         \* strategy selection harness: the strategies selected
    rangeReq,       \* range harness: file size and Range header
    rangeRes,       \* range harness: response of streamLocalVideoFile
    mpFile,         \* multipart upload: the file handed to uploadDirectlyToS3
    mpPc,           \* multipart upload: position of the orchestrator
    mpTasks,        \* multipart upload: the uploadSinglePart calls started
    mpParts,        \* multipart upload: the parts array
    mpCurrentPart,  \* multipart upload: currentPart of the batch loop
    mpS3,           \* multipart upload: the upload as S3 holds it, and how
                    \* S3 answered its completion
    mpState,        \* history: state of the upload session
    reqs,           \* server: the upload requests being handled
    reqCount,       \* server: number of upload requests received
    tempFiles,      \* server: paths of the temporary files on disk
    proxy,          \* server: one delivery by streamS3VideoToResponse
    slices,         \* part slicing: a file and the slices taken so far
    sync            \* server: the run of syncWithS3 under way, and the runs so far

vars == << USE_S3, localFiles, remoteObjects, videos, nextVideoId, last,
           signedCount, selectedFile, pc, attempts, curKey, uploadsStarted,
           del, selIn, selOut, rangeReq, rangeRes,
           mpFile, mpPc, mpTasks, mpParts, mpCurrentPart, mpS3, mpState,
           reqs, reqCount, tempFiles, proxy, slices, sync >>

storeVars == << localFiles, remoteObjects, videos, nextVideoId >>
clientVars == << selectedFile, pc, attempts, curKey, uploadsStarted >>
mpVars == << mpFile, mpPc, mpTasks, mpParts, mpCurrentPart, mpS3, mpState >>
srvVars == << reqs, reqCount, tempFiles >>
proxyVars == << proxy >>
sliceVars == << slices >>
syncVars == << sync >>
harnessVars == << selIn, selOut, rangeReq, rangeRes, mpVars, srvVars,
                 proxyVars,
                 sliceVars,
                 syncVars >>

None == [ none |-> TRUE ]

\* value of `last` before the server has answered any request
NoRequest == [ kind |-> "none" ]

\* ------------------------------------------------------------------------
\* Names and paths
\* ------------------------------------------------------------------------

\* Every server-generated name embeds a fresh UUID; the model names a file by
\* the mutation and the strategy that asked for it.
NameOf(k, strategy) == << k, strategy >>

\* a filePath is either the S3 key uploads/<name> or the bare local file name
S3Key(n) == [ remote |-> TRUE, name |-> n ]
LocalPath(n) == [ remote |-> FALSE, name |-> n ]

\* path.basename(filePath)
Basename(p) == p.name

\* ------------------------------------------------------------------------
\* Upload strategy selection (client)
\* ------------------------------------------------------------------------

FirstStrategyOffByOne(size) ==
    IF size >= LARGE_FILE_THRESHOLD THEN BrowserDirectMultipart
    ELSE IF size >= MEDIUM_FILE_THRESHOLD THEN ServerAssistedDirect
    ELSE ServerRelayed

\* the strategy mutationFn attempts first for a file of the given size
FirstStrategy(size) ==
    IF size > LARGE_FILE_THRESHOLD THEN BrowserDirectMultipart
    ELSE IF size > MEDIUM_FILE_THRESHOLD THEN ServerAssistedDirect
    ELSE ServerRelayed

EntryPointSingleUrl(strategy, size) ==
    CASE strategy = BrowserDirectMultipart -> "direct_config"
      [] strategy = ServerAssistedDirect -> "assisted_url"
      [] strategy = ServerRelayed -> "relay_send"

\* first request of a strategy
EntryPoint(strategy, size) ==
    CASE strategy = BrowserDirectMultipart -> "direct_config"
      [] strategy = ServerAssistedDirect ->
            IF size > MULTIPART_THRESHOLD THEN "mp_init" ELSE "assisted_url"
      [] strategy = ServerRelayed -> "relay_send"

FallbackSkipsTier(strategy, size) ==
    IF strategy = BrowserDirectMultipart THEN ServerRelayed
    ELSE IF strategy = ServerAssistedDirect THEN ServerRelayed
    ELSE "none"

\* the strategy mutationFn attempts after the given one has thrown
Fallback(strategy, size) ==
    IF strategy = BrowserDirectMultipart /\ size > MEDIUM_FILE_THRESHOLD
        THEN ServerAssistedDirect
    ELSE IF strategy \in { BrowserDirectMultipart, ServerAssistedDirect }
        THEN ServerRelayed
    ELSE "none"

\* ------------------------------------------------------------------------
\* Initial state
\* ------------------------------------------------------------------------

InitStore ==
    /\ localFiles = {}
    /\ remoteObjects = {}
    /\ videos = {}
    /\ nextVideoId = 1
    /\ last = NoRequest
    /\ signedCount = 0

InitClient ==
    /\ selectedFile = NoFile
    /\ pc = "idle"
    /\ attempts = << >>
    /\ curKey = None
    /\ uploadsStarted = 0

InitRequests ==
    /\ del = None

\* no multipart upload under way
InitMultipartIdle ==
    /\ mpFile = None
    /\ mpPc = "idle"
    /\ mpTasks = << >>
    /\ mpParts = << >>
    /\ mpCurrentPart = 1
    /\ mpS3 = [ state |-> "none", stored |-> {}, completion |-> "none" ]
    /\ mpState = "NONE"

\* no upload request received
InitServerIdle ==
    /\ reqs = << >>
    /\ reqCount = 0
    /\ tempFiles = {}

\* the synchronisation timers never fire
InitSyncIdle ==
    /\ sync = None

\* no file being sliced
InitSlicesIdle ==
    /\ slices = None

\* no delivery from S3 under way
InitProxyIdle ==
    /\ proxy = None

InitHarness ==
    /\ selIn = None
    /\ selOut = None
    /\ rangeReq = None
    /\ rangeRes = None
    /\ InitMultipartIdle
    /\ InitServerIdle
    /\ InitProxyIdle
    /\ InitSlicesIdle
    /\ InitSyncIdle

Init ==
    /\ USE_S3 \in BOOLEAN
    /\ InitStore
    /\ InitClient
    /\ InitRequests
    /\ InitHarness

\* ------------------------------------------------------------------------
\* MemStorage
\* ------------------------------------------------------------------------

\* MemStorage.createVideo: the record gets the next id
NewVideo(filePath) ==
    [ id |-> nextVideoId, filePath |-> filePath ]

\* MemStorage.getVideo
getVideo(id) ==
    IF \E v \in videos : v.id = id
        THEN CHOOSE v \in videos : v.id = id
        ELSE None

\* ------------------------------------------------------------------------
\* Upload modal: file selection and start of the mutation
\* ------------------------------------------------------------------------

\* handleFileChange / onDrop: a file above the limit is refused with a toast
SelectFile(size) ==
    /\ pc = "idle"
    /\ selectedFile = NoFile
    /\ uploadsStarted < MaxUploads
    /\ selectedFile' = IF size > maxFileSize THEN selectedFile ELSE size
    /\ UNCHANGED << USE_S3, storeVars, signedCount, pc, attempts, curKey,
                    uploadsStarted, last, del, harnessVars >>

\* handleSubmit -> uploadMutation.mutationFn up to its first request
StartUpload ==
    /\ pc = "idle"
    /\ selectedFile # NoFile
    /\ uploadsStarted < MaxUploads
    /\ uploadsStarted' = uploadsStarted + 1
    /\ curKey' = None
    /\ IF selectedFile > maxFileSize
          THEN /\ pc' = "failed"
               /\ attempts' = << >>
          ELSE /\ pc' = EntryPoint(FirstStrategy(selectedFile), selectedFile)
               /\ attempts' = << FirstStrategy(selectedFile) >>
    /\ signedCount' = 0
    /\ UNCHANGED << USE_S3, storeVars, selectedFile,
                    last, del, harnessVars >>

\* the strategy in progress
Current == attempts[Len(attempts)]

\* name the server generates for the current attempt
CurName == NameOf(uploadsStarted, Current)

\* catch block of the strategy in progress: fall back, or fail the mutation
Throw ==
    LET nxt == Fallback(Current, selectedFile) IN
    IF nxt = "none"
        THEN /\ pc' = "failed"
             /\ attempts' = attempts
        ELSE /\ pc' = EntryPoint(nxt, selectedFile)
             /\ attempts' = Append(attempts, nxt)

\* onSuccess resets the form; after onError the form keeps the file
Settle ==
    /\ pc \in { "done", "failed" }
    /\ pc' = "idle"
    /\ selectedFile' = IF pc = "done" THEN NoFile ELSE selectedFile
    /\ attempts' = << >>
    /\ curKey' = None
    /\ signedCount' = 0
    /\ UNCHANGED << USE_S3, storeVars, uploadsStarted, last, del,
                    harnessVars >>

\* ------------------------------------------------------------------------
\* Server: guards of the S3 endpoints
\* ------------------------------------------------------------------------

\* server isProduction() && DEPLOYMENT_CONFIG.disableMultipartUploads
MultipartDisabled == FALSE

\* POST /api/direct-upload/config answers 400 when S3 is disabled
ConfigRefused == ~USE_S3

UploadUrlNeverRefused == FALSE

\* GET /api/upload-url answers 400 (fallbackAvailable) when S3 is disabled
UploadUrlRefused == ~USE_S3

\* POST /api/multipart-upload/init answers 400 when multipart or S3 is disabled
MultipartInitRefused == MultipartDisabled \/ ~USE_S3

\* POST /api/direct-upload/register and POST /api/videos/s3 answer 400
RegisterRefused == ~USE_S3

\* ------------------------------------------------------------------------
\* Server: registration of an object the browser has put into S3
\* (POST /api/direct-upload/register, POST /api/videos/s3)
\* ------------------------------------------------------------------------

\* The handler downloads the object to a temporary file, makes the thumbnail,
\* unlinks the temporary file and creates the record with the key as filePath.
\* dlOk: the download from S3 worked; lost: the response did not reach the
\* client.
RegisterS3Object(key, dlOk, lost) ==
    IF ~RegisterRefused /\ dlOk /\ key.name \in remoteObjects
        THEN /\ videos' = videos \cup { NewVideo(key) }
             /\ nextVideoId' = nextVideoId + 1
             /\ last' =
                    [ kind |-> "ingest", id |-> nextVideoId, name |-> key.name,
                      strategy |-> Current, remoteWrite |-> "direct",
                      filePath |-> key, status |-> 201 ]
             /\ UNCHANGED << localFiles, remoteObjects >>
             /\ IF lost THEN Throw
                        ELSE pc' = "done" /\ attempts' = attempts
        ELSE /\ UNCHANGED << storeVars, last >>
             /\ Throw

\* ------------------------------------------------------------------------
\* Upload modal: trueBrowserDirectUpload
\* ------------------------------------------------------------------------

\* POST /api/direct-upload/config
DirectConfig(ok) ==
    /\ pc = "direct_config"
    /\ IF ~ConfigRefused /\ ok
          THEN /\ signedCount' = signedCount + 1
               /\ IF selectedFile > PRESIGNED_POST_THRESHOLD
                     THEN /\ curKey' = S3Key(CurName)
                          /\ pc' = "direct_post"
                          /\ attempts' = attempts
                     ELSE /\ curKey' = curKey
                          /\ Throw
          ELSE /\ signedCount' = signedCount
               /\ curKey' = curKey
               /\ Throw
    /\ UNCHANGED << USE_S3, storeVars, selectedFile, uploadsStarted,
                    last, del, harnessVars >>

\* POST of the form to the presigned S3 URL
DirectPost(ok) ==
    /\ pc = "direct_post"
    /\ IF ok
          THEN /\ remoteObjects' = remoteObjects \cup { curKey.name }
               /\ pc' = "direct_register"
               /\ attempts' = attempts
          ELSE /\ remoteObjects' = remoteObjects
               /\ Throw
    /\ UNCHANGED << USE_S3, localFiles, videos, nextVideoId,
                    signedCount, selectedFile, curKey, uploadsStarted,
                    last, del, harnessVars >>

\* POST /api/direct-upload/register
DirectRegister(dlOk, lost) ==
    /\ pc = "direct_register"
    /\ RegisterS3Object(curKey, dlOk, lost)
    /\ UNCHANGED << USE_S3, signedCount, selectedFile, curKey, uploadsStarted,
                    del, harnessVars >>

\* ------------------------------------------------------------------------
\* Upload modal: uploadDirectlyToS3
\* ------------------------------------------------------------------------

\* GET /api/upload-url (files up to MULTIPART_THRESHOLD)
AssistedUrl(ok) ==
    /\ pc = "assisted_url"
    /\ IF ~UploadUrlRefused /\ ok
          THEN /\ signedCount' = signedCount + 1
               /\ curKey' = S3Key(CurName)
               /\ pc' = "assisted_put"
               /\ attempts' = attempts
          ELSE /\ signedCount' = signedCount
               /\ curKey' = curKey
               /\ Throw
    /\ UNCHANGED << USE_S3, storeVars, selectedFile, uploadsStarted,
                    last, del, harnessVars >>

\* PUT of the whole file to the presigned URL
AssistedPut(ok) ==
    /\ pc = "assisted_put"
    /\ IF ok
          THEN /\ remoteObjects' = remoteObjects \cup { curKey.name }
               /\ pc' = "assisted_register"
               /\ attempts' = attempts
          ELSE /\ remoteObjects' = remoteObjects
               /\ Throw
    /\ UNCHANGED << USE_S3, localFiles, videos, nextVideoId,
                    signedCount, selectedFile, curKey, uploadsStarted,
                    last, del, harnessVars >>

\* POST /api/multipart-upload/init (files above MULTIPART_THRESHOLD)
MpInit(ok) ==
    /\ pc = "mp_init"
    /\ IF ~MultipartInitRefused /\ selectedFile <= MAX_FILE_SIZE /\ ok
          THEN /\ signedCount' = signedCount + 1
               /\ curKey' = S3Key(CurName)
               /\ pc' = "mp_parts"
               /\ attempts' = attempts
          ELSE /\ signedCount' = signedCount
               /\ curKey' = curKey
               /\ Throw
    /\ UNCHANGED << USE_S3, storeVars, selectedFile, uploadsStarted,
                    last, del, harnessVars >>

\* A file is its size and the number of size units in one MiB: 1024 * 1024
\* for a size in bytes, 1024 for a size in KiB (sizes beyond 2^31 bytes).
ByteFile(size) == [ size |-> size, mib |-> MiB ]

\* Math.ceil(a / b) for positive integers
CeilDiv(a, b) == (a + b - 1) \div b

PartSizeBase(file) == 5 * file.mib

\* partSize: 25 MiB above 500 MiB, 10 MiB above 100 MiB, else 5 MiB
PartSize(file) ==
    IF file.size > 500 * file.mib THEN 25 * file.mib
    ELSE IF file.size > 100 * file.mib THEN 10 * file.mib
    ELSE 5 * file.mib

\* numParts
NumParts(file) == CeilDiv(file.size, PartSize(file))

\* number of parts of a file the modal sends down this path
UploadParts(size) == NumParts(ByteFile(size))

\* the batches of part uploads, as one step: every part stored, each through
\* a signed URL of its own (the URLs of repeated attempts and of a run that
\* fails are not counted), or one part out of retries
MpParts(ok) ==
    /\ pc = "mp_parts"
    /\ IF ok
          THEN /\ pc' = "mp_complete"
               /\ attempts' = attempts
               /\ signedCount' = signedCount + UploadParts(selectedFile)
          ELSE /\ Throw
               /\ signedCount' = signedCount
    /\ UNCHANGED << USE_S3, storeVars, selectedFile, curKey,
                    uploadsStarted, last, del, harnessVars >>

\* POST /api/multipart-upload/complete
MpComplete(ok) ==
    /\ pc = "mp_complete"
    /\ IF USE_S3 /\ ok
          THEN /\ remoteObjects' = remoteObjects \cup { curKey.name }
               /\ pc' = "assisted_register"
               /\ attempts' = attempts
          ELSE /\ remoteObjects' = remoteObjects
               /\ Throw
    /\ UNCHANGED << USE_S3, localFiles, videos, nextVideoId,
                    signedCount, selectedFile, curKey, uploadsStarted,
                    last, del, harnessVars >>

\* POST /api/videos/s3
AssistedRegister(dlOk, lost) ==
    /\ pc = "assisted_register"
    /\ RegisterS3Object(curKey, dlOk, lost)
    /\ UNCHANGED << USE_S3, signedCount, selectedFile, curKey, uploadsStarted,
                    del, harnessVars >>

\* ------------------------------------------------------------------------
\* Strings: a string is a sequence of one-character strings
\* ------------------------------------------------------------------------

DigitChars == << "0", "1", "2", "3", "4", "5", "6", "7", "8", "9" >>

IsDigit(c) == \E i \in 1 .. 10 : DigitChars[i] = c

DigitValue(c) == (CHOOSE i \in 1 .. 10 : DigitChars[i] = c) - 1

\* Number.prototype.toString of a non-negative integer
RECURSIVE NumToString(_)
NumToString(n) ==
    IF n < 10 THEN << DigitChars[n + 1] >>
    ELSE NumToString(n \div 10) \o << DigitChars[(n % 10) + 1] >>

\* a JavaScript number: an integer or NaN
Num(v) == [ nan |-> FALSE, val |-> v ]
NaN == [ nan |-> TRUE, val |-> 0 ]

\* value of a string of digits
RECURSIVE DigitsValue(_)
DigitsValue(str) ==
    IF str = << >> THEN 0
    ELSE 10 * DigitsValue(SubSeq(str, 1, Len(str) - 1))
            + DigitValue(str[Len(str)])

\* longest prefix of str made of digits
RECURSIVE DigitPrefix(_)
DigitPrefix(str) ==
    IF str = << >> \/ ~IsDigit(str[1]) THEN << >>
    ELSE << str[1] >> \o DigitPrefix(Tail(str))

\* leading white space removed
RECURSIVE TrimStart(_)
TrimStart(str) ==
    IF str # << >> /\ str[1] = " " THEN TrimStart(Tail(str)) ELSE str

\* parseInt(str, 10): white space, an optional sign, then digits; NaN when no
\* digit follows
parseInt(str) ==
    LET t == TrimStart(str)
        signed == t # << >> /\ t[1] \in { "+", "-" }
        digits == DigitPrefix(IF signed THEN Tail(t) ELSE t)
    IN  IF digits = << >> THEN NaN
        ELSE IF signed /\ t[1] = "-" THEN Num(0 - DigitsValue(digits))
        ELSE Num(DigitsValue(digits))

\* str.startsWith(prefix)
StartsWith(str, prefix) ==
    /\ Len(str) >= Len(prefix)
    /\ SubSeq(str, 1, Len(prefix)) = prefix

\* str.replace(pattern, "") for a literal pattern: the first occurrence goes
RECURSIVE RemoveFirst(_, _)
RemoveFirst(str, pattern) ==
    IF str = << >> THEN << >>
    ELSE IF StartsWith(str, pattern)
        THEN SubSeq(str, Len(pattern) + 1, Len(str))
    ELSE << str[1] >> \o RemoveFirst(Tail(str), pattern)

\* str.split(sep) for a one-character separator
RECURSIVE Split(_, _)
Split(str, sep) ==
    IF \A i \in 1 .. Len(str) : str[i] # sep THEN << str >>
    ELSE LET i == CHOOSE j \in 1 .. Len(str) :
                      /\ str[j] = sep
                      /\ \A h \in 1 .. (j - 1) : str[h] # sep
         IN  << SubSeq(str, 1, i - 1) >>
                 \o Split(SubSeq(str, i + 1, Len(str)), sep)

BytesEq == << "b", "y", "t", "e", "s", "=" >>
BytesSp == << "b", "y", "t", "e", "s", " " >>

\* ------------------------------------------------------------------------
\* Server: streamLocalVideoFile
\* ------------------------------------------------------------------------

NoHeader == << "n", "o", "n", "e" >>

\* fs.createReadStream(path, { start, end }) validates its options: both are
\* non-negative integers and start <= end, or it throws
ReadStreamThrows(start, end) ==
    \/ start.nan
    \/ end.nan
    \/ start.val < 0
    \/ end.val < 0
    \/ start.val > end.val

ChunkSizeOffByOne(start, end) == end - start

\* const chunkSize = (end - start) + 1
ChunkSize(start, end) == (end - start) + 1

\* `bytes ${start}-${end}/${fileSize}`
ContentRange(start, end, fileSize) ==
    BytesSp \o NumToString(start) \o << "-" >> \o NumToString(end)
            \o << "/" >> \o NumToString(fileSize)

\* The response of streamLocalVideoFile for a file of fileSize bytes and the
\* given Range header (NoHeader when the request has none).  readFrom..readTo
\* are the offsets of the bytes the read stream delivers: the stream stops at
\* the end of the file.
streamLocalVideoFile(fileSize, range) ==
    IF range # NoHeader /\ range # << >>
    THEN LET parts == Split(RemoveFirst(range, BytesEq), "-")
             start == parseInt(parts[1])
             end == IF Len(parts) >= 2 /\ parts[2] # << >>
                        THEN parseInt(parts[2])
                        ELSE Num(fileSize - 1)
         IN  IF ReadStreamThrows(start, end)
             THEN [ status |-> 500 ]
             ELSE [ status |-> 206,
                    contentRange |->
                        ContentRange(start.val, end.val, fileSize),
                    contentLength |-> ChunkSize(start.val, end.val),
                    readFrom |-> start.val,
                    readTo |-> IF end.val < fileSize - 1 THEN end.val
                                                         ELSE fileSize - 1 ]
    ELSE [ status |-> 200,
           contentLength |-> fileSize,
           readFrom |-> 0,
           readTo |-> fileSize - 1 ]

\* ------------------------------------------------------------------------
\* Local store (uploads directory)
\* ------------------------------------------------------------------------

\* fs.existsSync(path.join(uploadDir, name))
LocalExists(n) == \E f \in localFiles : f.name = n

LocalFile(n) == CHOOSE f \in localFiles : f.name = n

\* ------------------------------------------------------------------------
\* Upload modal and server: the relayed upload, POST /api/videos
\* ------------------------------------------------------------------------

\* multer limits.fileSize: effectiveFileSize
effectiveFileSize == MAX_FILE_SIZE

\* The XHR is sent; the size middleware and multer store the file under a
\* fresh name in the uploads directory, or the request fails.
\* netOk: the request reaches the server; diskOk: multer can write the file.
RelaySend(overhead, netOk, diskOk) ==
    /\ pc = "relay_send"
    /\ IF /\ netOk
          /\ selectedFile + overhead <= MAX_FILE_SIZE
          /\ selectedFile <= effectiveFileSize
          /\ diskOk
          THEN /\ localFiles' = localFiles \cup
                      { [ name |-> CurName, size |-> selectedFile ] }
               /\ curKey' = LocalPath(CurName)
               /\ pc' = "relay_process"
               /\ attempts' = attempts
          ELSE /\ localFiles' = localFiles
               /\ curKey' = curKey
               /\ Throw
    /\ UNCHANGED << USE_S3, remoteObjects, videos, nextVideoId,
                    signedCount, selectedFile, uploadsStarted,
                    last, del, harnessVars >>

RelayVideoPathLocalOnThumbFailure(n, videoOk, thumbOk) ==
    IF USE_S3 /\ videoOk /\ thumbOk THEN S3Key(n) ELSE LocalPath(n)

\* processVideoUpload: videoPath starts as the local file name and becomes
\* the S3 key once the upload of the video to S3 has returned; a failure of
\* the thumbnail upload that follows leaves it at the key
RelayVideoPath(n, videoOk, thumbOk) ==
    IF USE_S3 /\ videoOk THEN S3Key(n) ELSE LocalPath(n)

RelayStatusFailsWithRemote(videoOk, thumbOk) ==
    IF USE_S3 /\ ~videoOk THEN 500 ELSE 201

\* status of the response of processVideoUpload once the file is stored
RelayStatus(videoOk, thumbOk) == 201

\* processVideoUpload from the thumbnail to the response.
\* videoOk, thumbOk: the uploads of video and thumbnail to S3 work;
\* lost: the response does not reach the client.
RelayProcess(videoOk, thumbOk, lost) ==
    LET n == curKey.name
        videoPath == RelayVideoPath(n, videoOk, thumbOk)
        status == RelayStatus(videoOk, thumbOk)
    IN
    /\ pc = "relay_process"
    /\ remoteObjects' = IF USE_S3 /\ videoOk THEN remoteObjects \cup { n }
                                             ELSE remoteObjects
    /\ IF status = 201
          THEN /\ videos' = videos \cup { NewVideo(videoPath) }
               /\ nextVideoId' = nextVideoId + 1
          ELSE UNCHANGED << videos, nextVideoId >>
    /\ last' =
          [ kind |-> "ingest", id |-> nextVideoId, name |-> n,
            strategy |-> ServerRelayed,
            remoteWrite |-> IF ~USE_S3 THEN "disabled"
                            ELSE IF videoOk THEN "ok" ELSE "failed",
            filePath |-> videoPath, status |-> status ]
    /\ IF lost \/ status # 201
          THEN Throw
          ELSE pc' = "done" /\ attempts' = attempts
    /\ UNCHANGED << USE_S3, localFiles, signedCount, selectedFile, curKey,
                    uploadsStarted, del, harnessVars >>

\* ------------------------------------------------------------------------
\* Server: GET /videos/:filename
\* ------------------------------------------------------------------------

\* s3.ts fileExistsInS3: false when S3 is disabled, and false when the HEAD
\* request throws (headOk is FALSE), whatever the bucket holds
fileExistsInS3(n, headOk) ==
    /\ USE_S3
    /\ headOk
    /\ n \in remoteObjects

\* where the handler takes the video from: the local file when it exists,
\* else a redirect to a presigned URL when S3 has the object and the URL can
\* be signed (signOk), else nothing
Resolve(n, headOk, signOk) ==
    IF LocalExists(n) THEN "LOCAL_FILE"
    ELSE IF USE_S3 /\ fileExistsInS3(n, headOk) /\ signOk
        THEN "REMOTE_REDIRECT"
    ELSE "NOT_FOUND"

\* Whether a response of an ingest endpoint is lost on its way to the browser.
\* The system model delivers every response.
ResponseLost == { FALSE }

\* Range headers of the streaming requests of the system model
StreamRanges == { NoHeader, BytesEq \o << "0", "-" >> }

\* answers of S3 to the handler: the HEAD request and the signing both work,
\* the HEAD request fails, or the signing fails
S3Answers ==
    { [ headOk |-> TRUE, signOk |-> TRUE ],
      [ headOk |-> FALSE, signOk |-> TRUE ],
      [ headOk |-> TRUE, signOk |-> FALSE ] }

\* a file name no upload has produced
MissingName == << 0, ServerRelayed >>

\* file names the streaming requests of the system model ask for: every name
\* a store or a record holds, and one that none holds
StreamNames ==
    { f.name : f \in localFiles } \cup remoteObjects
        \cup { Basename(v.filePath) : v \in videos } \cup { MissingName }

\* the handler; headOk: the HEAD request to S3 gets an answer
Stream(n, range, headOk, signOk) ==
    LET source == Resolve(n, headOk, signOk)
        local == IF source = "LOCAL_FILE"
                    THEN streamLocalVideoFile(LocalFile(n).size, range)
                    ELSE None
        status == CASE source = "LOCAL_FILE" -> local.status
                    [] source = "REMOTE_REDIRECT" -> 302
                    [] OTHER -> 404
    IN
    /\ last' = [ kind |-> "stream",
                 name |-> n, status |-> status, source |-> source,
                 localExisted |-> LocalExists(n),
                 remoteExisted |-> n \in remoteObjects ]
    /\ UNCHANGED << USE_S3, storeVars, signedCount, clientVars, del,
                    harnessVars >>

\* ------------------------------------------------------------------------
\* Server: DELETE /api/videos/:id
\* ------------------------------------------------------------------------

\* video.filePath.includes("://"): no path the server stores is a URL
IncludesScheme(filePath) == FALSE

\* local file the handler unlinks: unlinkOk is FALSE when unlinkSync throws
LocalAfterDelete(video, unlinkOk) ==
    IF unlinkOk THEN { f \in localFiles : f.name # Basename(video.filePath) }
                ELSE localFiles

DeleteStatusNeedsCleanup(success, s3Ok, unlinkOk) ==
    IF success /\ s3Ok /\ unlinkOk THEN 204 ELSE 500

\* status of the response: only the result of storage.deleteVideo counts
DeleteStatus(success, s3Ok, unlinkOk) ==
    IF success THEN 204 ELSE 500

\* the handler from the local clean-up to the response
DeleteFinish(id, video, s3Tried, s3Ok, unlinkOk) ==
    LET success == \E v \in videos : v.id = id IN
    /\ localFiles' = LocalAfterDelete(video, unlinkOk)
    /\ videos' = { v \in videos : v.id # id }
    /\ last' =
          [ kind |-> "delete",
            id |-> id, found |-> TRUE, filePath |-> video.filePath,
            status |-> DeleteStatus(success, s3Ok, unlinkOk),
            s3Tried |-> s3Tried, s3Ok |-> s3Ok, unlinkOk |-> unlinkOk,
            removed |-> (\E v \in videos : v.id = id)
                           /\ ~(\E v \in videos' : v.id = id),
            localBefore |-> LocalExists(Basename(video.filePath)),
            remoteBefore |-> Basename(video.filePath) \in remoteObjects,
            localAfter |-> \E f \in localFiles' :
                               f.name = Basename(video.filePath),
            remoteAfter |-> Basename(video.filePath) \in remoteObjects' ]
    /\ del' = None

VideoIds == 1 .. MaxUploads

\* the request arrives: 404 without a record; with S3 enabled the handler
\* first awaits deleteFileFromS3, else it goes on to the local clean-up
DeleteStart(id, unlinkOk) ==
    LET video == getVideo(id) IN
    /\ del = None
    /\ IF video = None
          THEN /\ last' = [ kind |-> "delete", id |-> id,
                                found |-> FALSE, status |-> 404 ]
               /\ UNCHANGED << del, localFiles, videos, remoteObjects >>
          ELSE IF USE_S3 /\ ~IncludesScheme(video.filePath)
          THEN /\ del' = [ id |-> id, video |-> video ]
               /\ UNCHANGED << last, localFiles, videos, remoteObjects >>
          ELSE /\ remoteObjects' = remoteObjects
               /\ DeleteFinish(id, video, FALSE, FALSE, unlinkOk)
    /\ UNCHANGED << USE_S3, nextVideoId, signedCount, clientVars,
                    harnessVars >>

\* deleteFileFromS3(video.filePath) has answered (s3Ok is FALSE when the
\* request failed: the function returns false), then the local clean-up and
\* storage.deleteVideo
DeleteS3Done(s3Ok, unlinkOk) ==
    /\ del # None
    /\ remoteObjects' =
          IF s3Ok /\ del.video.filePath.remote
              THEN remoteObjects \ { del.video.filePath.name }
              ELSE remoteObjects
    /\ DeleteFinish(del.id, del.video, TRUE, s3Ok, unlinkOk)
    /\ UNCHANGED << USE_S3, nextVideoId, signedCount, clientVars,
                    harnessVars >>

\* ------------------------------------------------------------------------
\* The system: one upload modal, the server, the two stores
\* ------------------------------------------------------------------------

Next ==
    \/ \E size \in UploadSizes : SelectFile(size)
    \/ StartUpload
    \/ \E ok \in BOOLEAN : DirectConfig(ok)
    \/ \E ok \in BOOLEAN : DirectPost(ok)
    \/ \E dlOk \in BOOLEAN, lost \in ResponseLost : DirectRegister(dlOk, lost)
    \/ \E ok \in BOOLEAN : AssistedUrl(ok)
    \/ \E ok \in BOOLEAN : AssistedPut(ok)
    \/ \E ok \in BOOLEAN : MpInit(ok)
    \/ \E ok \in BOOLEAN : MpParts(ok)
    \/ \E ok \in BOOLEAN : MpComplete(ok)
    \/ \E dlOk \in BOOLEAN, lost \in ResponseLost :
          AssistedRegister(dlOk, lost)
    \/ \E overhead \in FormOverheads, netOk, diskOk \in BOOLEAN :
          RelaySend(overhead, netOk, diskOk)
    \/ \E videoOk, thumbOk \in BOOLEAN, lost \in ResponseLost :
          RelayProcess(videoOk, thumbOk, lost)
    \/ Settle
    \/ \E n \in StreamNames, range \in StreamRanges, s3 \in S3Answers :
          Stream(n, range, s3.headOk, s3.signOk)
    \/ \E id \in VideoIds, unlinkOk \in BOOLEAN : DeleteStart(id, unlinkOk)
    \/ \E s3Ok, unlinkOk \in BOOLEAN : DeleteS3Done(s3Ok, unlinkOk)

Spec == Init /\ [][Next]_vars

\* ------------------------------------------------------------------------
\* The upload modal and the ingest endpoints over a network that can lose
\* the response of an ingest endpoint: fetch rejects, the XHR reports an error
\* ------------------------------------------------------------------------

NextLossy ==
    \/ \E size \in UploadSizes : SelectFile(size)
    \/ StartUpload
    \/ \E ok \in BOOLEAN : DirectConfig(ok)
    \/ \E ok \in BOOLEAN : DirectPost(ok)
    \/ \E dlOk, lost \in BOOLEAN : DirectRegister(dlOk, lost)
    \/ \E ok \in BOOLEAN : AssistedUrl(ok)
    \/ \E ok \in BOOLEAN : AssistedPut(ok)
    \/ \E ok \in BOOLEAN : MpInit(ok)
    \/ \E ok \in BOOLEAN : MpParts(ok)
    \/ \E ok \in BOOLEAN : MpComplete(ok)
    \/ \E dlOk, lost \in BOOLEAN : AssistedRegister(dlOk, lost)
    \/ \E overhead \in FormOverheads, netOk, diskOk \in BOOLEAN :
          RelaySend(overhead, netOk, diskOk)
    \/ \E videoOk, thumbOk, lost \in BOOLEAN :
          RelayProcess(videoOk, thumbOk, lost)
    \/ Settle

SpecLossy == Init /\ [][NextLossy]_vars

\* ------------------------------------------------------------------------
\* Server: syncWithS3, started by the startup timer and the periodic timer
\* ------------------------------------------------------------------------

\* runs of syncWithS3 the timers start
MaxSyncs == 2

\* files below this size are skipped as corrupted
MinSyncSize == 1024

\* existingPaths.has(...): a record whose filePath, with or without the
\* uploads/ prefix, names the file
Recorded(n) == \E v \in videos : Basename(v.filePath) = n

\* the records the loop of syncFromLocalFiles creates for the given files,
\* in the order of the directory listing, with filePath uploads/<file>
RECURSIVE Recovered(_, _)
Recovered(names, id) ==
    IF names = {} THEN {}
    ELSE LET n == CHOOSE x \in names : TRUE
         IN  { [ id |-> id, filePath |-> S3Key(n) ] }
                 \cup Recovered(names \ { n }, id + 1)

NoSync == [ runs |-> 0, phase |-> "idle", keys |-> {} ]

InitSync ==
    /\ USE_S3 \in BOOLEAN
    /\ InitStore
    /\ InitClient
    /\ InitRequests
    /\ selIn = None
    /\ selOut = None
    /\ rangeReq = None
    /\ rangeRes = None
    /\ InitMultipartIdle
    /\ InitServerIdle
    /\ InitProxyIdle
    /\ slices = None
    /\ sync = NoSync

\* A timer fires: syncFromLocalFiles runs to its end (MemStorage answers
\* without input or output, so no request is served in between), then
\* syncFromS3Storage sends the listing request when S3 is enabled.
SyncStart ==
    LET names == { f.name : f \in { g \in localFiles :
                                      /\ ~Recorded(g.name)
                                      /\ ~(g.size < MinSyncSize) } }
    IN
    /\ sync.phase = "idle"
    /\ sync.runs < MaxSyncs
    /\ videos' = videos \cup Recovered(names, nextVideoId)
    /\ nextVideoId' = nextVideoId + Cardinality(names)
    /\ sync' = [ runs |-> sync.runs + 1,
                 phase |-> IF USE_S3 THEN "list" ELSE "idle",
                 keys |-> {} ]
    /\ UNCHANGED << USE_S3, localFiles, remoteObjects, signedCount,
                    clientVars, last, del, selIn, selOut, rangeReq,
                    rangeRes, mpVars, srvVars, proxyVars, sliceVars >>

\* listS3Objects has answered (an empty list when the request failed); the
\* records are read and the keys no record names are left to create
SyncListed(listOk) ==
    LET keys == IF listOk THEN { n \in remoteObjects : ~Recorded(n) }
                          ELSE {}
    IN
    /\ sync.phase = "list"
    /\ sync' = [ sync EXCEPT !.phase = IF keys = {} THEN "idle"
                                                    ELSE "create",
                             !.keys = keys ]
    /\ UNCHANGED << USE_S3, storeVars, signedCount, clientVars, last, del,
                    selIn, selOut, rangeReq, rangeRes, mpVars, srvVars,
                    proxyVars, sliceVars >>

\* the thumbnail check of the next key has answered: its record is created
\* with the key as filePath
SyncCreate ==
    /\ sync.phase = "create"
    /\ \E n \in sync.keys :
          /\ videos' = videos \cup { NewVideo(S3Key(n)) }
          /\ nextVideoId' = nextVideoId + 1
          /\ sync' = [ sync EXCEPT
                         !.phase = IF sync.keys = { n } THEN "idle"
                                                        ELSE "create",
                         !.keys = sync.keys \ { n } ]
    /\ UNCHANGED << USE_S3, localFiles, remoteObjects, signedCount,
                    clientVars, last, del, selIn, selOut, rangeReq,
                    rangeRes, mpVars, srvVars, proxyVars, sliceVars >>

NextSync ==
    \/ Next
    \/ SyncStart
    \/ \E listOk \in BOOLEAN : SyncListed(listOk)
    \/ SyncCreate

\* the system with the synchronisation timers
SpecSync == InitSync /\ [][NextSync]_vars

\* ------------------------------------------------------------------------
\* Strategy selection on its own: two files, the strategy each starts with
\* ------------------------------------------------------------------------

InitSelect ==
    /\ USE_S3 = TRUE
    /\ InitStore
    /\ InitClient
    /\ InitRequests
    /\ selIn \in FileSizes \X FileSizes
    /\ selOut = None
    /\ rangeReq = None
    /\ rangeRes = None
    /\ InitMultipartIdle
    /\ InitServerIdle
    /\ InitProxyIdle
    /\ InitSlicesIdle
    /\ InitSyncIdle

\* what the modal does with a file of the given size: refuse it at selection,
\* or start with a strategy
Select(size) ==
    IF size > maxFileSize THEN "refused" ELSE FirstStrategy(size)

SelectBoth ==
    /\ selOut = None
    /\ selOut' = << Select(selIn[1]), Select(selIn[2]) >>
    /\ UNCHANGED << USE_S3, storeVars, signedCount, clientVars, last, del,
                    selIn, rangeReq, rangeRes, mpVars, srvVars, proxyVars,
                 sliceVars,
                 syncVars >>

NextSelect == SelectBoth

SpecSelect == InitSelect /\ [][NextSelect]_vars

\* ------------------------------------------------------------------------
\* streamLocalVideoFile on its own: one file, one Range header
\* ------------------------------------------------------------------------

RangeFileSizes == { 1, 200, 1000 }

RangeNums == { 0, 1, 99, 100, 199, 999, 1000 }

RangeHeaders ==
    { NoHeader }
    \cup { BytesEq \o NumToString(a) \o << "-" >> \o NumToString(b) :
              a \in RangeNums, b \in RangeNums }
    \cup { BytesEq \o NumToString(a) \o << "-" >> : a \in RangeNums }
    \cup { BytesEq \o << "-" >> \o NumToString(b) : b \in RangeNums }
    \cup { BytesEq \o << "x", "-" >>,
           BytesEq \o << "0", "-", "0", ",", "5", "-", "9" >> }

\* content of the file of the given size: byte i is FileBytes(size)[i + 1]
FileBytes(size) == [ i \in 1 .. size |-> (i - 1) % 251 ]

InitRange ==
    /\ USE_S3 = FALSE
    /\ InitStore
    /\ InitClient
    /\ InitRequests
    /\ selIn = None
    /\ selOut = None
    /\ rangeReq \in [ size : RangeFileSizes, range : RangeHeaders ]
    /\ rangeRes = None
    /\ InitMultipartIdle
    /\ InitServerIdle
    /\ InitProxyIdle
    /\ InitSlicesIdle
    /\ InitSyncIdle

\* the response and the bytes the piped read stream delivers
ServeRange ==
    LET res == streamLocalVideoFile(rangeReq.size, rangeReq.range) IN
    /\ rangeRes = None
    /\ rangeRes' =
          [ res |-> res,
            body |-> IF res.status = 500 THEN << >>
                     ELSE SubSeq(FileBytes(rangeReq.size),
                                 res.readFrom + 1, res.readTo + 1) ]
    /\ UNCHANGED << USE_S3, storeVars, signedCount, clientVars, last, del,
                    selIn, selOut, rangeReq, mpVars, srvVars,
                    proxyVars,
                 sliceVars,
                 syncVars >>

NextRange == ServeRange

SpecRange == InitRange /\ [][NextRange]_vars

\* ------------------------------------------------------------------------
\* uploadDirectlyToS3, multipart branch, on its own: one file, the session
\* S3 keeps for it, and the uploadSinglePart calls of the batches
\* ------------------------------------------------------------------------

MAX_RETRIES == 3

\* S3's ceiling on the number of parts
MAX_PARTS == 10000

\* the files of the orchestrator's model: the smallest file that enters the
\* multipart branch, and one that needs 10,001 parts
MpFiles ==
    { ByteFile(100 * MiB + 1),
      [ size |-> MAX_PARTS * 25 * 1024 + 1, mib |-> 1024 ] }

TooManyPartsNever(numParts) == FALSE

\* if (numParts > 10000) throw
TooManyParts(numParts) == numParts > MAX_PARTS

BatchSizeAllParts(file) == NumParts(file)

\* BATCH_SIZE
BatchSize(file) ==
    IF PartSize(file) >= 25 * file.mib THEN 2
    ELSE IF PartSize(file) <= 5 * file.mib /\ file.size < 200 * file.mib
        THEN 4
    ELSE 3

\* part numbers of the batch that starts at currentPart
BatchParts(file, currentPart) ==
    { p \in currentPart .. (currentPart + BatchSize(file) - 1) :
          p <= NumParts(file) }

\* the ETag header S3 sends for a stored part, and the header missing
EtagHeader == << "\"", "e", "t", "\"" >>
NoEtag == << >>

\* etag.replace(/"/g, '')
StripQuotes(str) == SelectSeq(str, LAMBDA c : c # "\"")

BackoffLinear(retryCount) == retryCount * 1000

\* delay before the next attempt, in ms: Math.pow(2, retryCount - 1) * 1000
Backoff(retryCount) == 2 ^ (retryCount - 1) * 1000

\* uploadSinglePart as the batch loop starts it; delay is the time the call
\* waits before its coming attempt; a call that has returned keeps no retry
\* count
NewTask == [ retryCount |-> 0, status |-> "running", delay |-> 0 ]

\* mpTasks with the calls for the given part numbers started
WithTasks(tasks, ps) ==
    [ p \in (DOMAIN tasks) \cup ps |->
          IF p \in DOMAIN tasks THEN tasks[p] ELSE NewTask ]


\* CompleteMultipartUpload as S3 documents it: the upload is open, the list
\* names at least one part, in ascending order of part number, and every
\* part it names has been stored with the ETag given
S3CompleteAccepts(s3, parts) ==
    /\ s3.state = "open"
    /\ Len(parts) > 0
    /\ \A i \in 1 .. (Len(parts) - 1) :
          parts[i].PartNumber < parts[i + 1].PartNumber
    /\ \A i \in 1 .. Len(parts) :
          /\ parts[i].PartNumber \in s3.stored
          /\ parts[i].ETag = StripQuotes(EtagHeader)

InitMultipart ==
    /\ USE_S3 = TRUE
    /\ InitStore
    /\ InitClient
    /\ InitRequests
    /\ selIn = None
    /\ selOut = None
    /\ rangeReq = None
    /\ rangeRes = None
    /\ mpFile \in MpFiles
    /\ mpPc = "init"
    /\ mpTasks = << >>
    /\ mpParts = << >>
    /\ mpCurrentPart = 1
    /\ mpS3 = [ state |-> "none", stored |-> {}, completion |-> "none" ]
    /\ mpState = "NONE"
    /\ InitServerIdle
    /\ InitProxyIdle
    /\ InitSlicesIdle
    /\ InitSyncIdle

mpFrame ==
    UNCHANGED << USE_S3, storeVars, signedCount, clientVars, last, del,
                 selIn, selOut, rangeReq, rangeRes, mpFile, srvVars,
                 proxyVars,
                 sliceVars,
                 syncVars >>

\* POST /api/multipart-upload/init has answered (ok: with an upload id), then
\* part sizing, the part count check and the first batch
MpxInit(ok) ==
    /\ mpPc = "init"
    /\ IF ~ok
          THEN /\ mpPc' = "failed"
               /\ UNCHANGED << mpTasks, mpS3, mpState >>
          ELSE /\ mpS3' = [ mpS3 EXCEPT !.state = "open" ]
               /\ IF TooManyParts(NumParts(mpFile))
                     THEN /\ mpPc' = "failed"
                          /\ mpState' = "FAILED"
                          /\ mpTasks' = mpTasks
                     ELSE /\ mpPc' = "batch"
                          /\ mpState' = "INITIATED"
                          /\ mpTasks' = WithTasks(mpTasks,
                                            BatchParts(mpFile, 1))
    /\ UNCHANGED << mpParts, mpCurrentPart >>
    /\ mpFrame

\* what the batch loop does once Promise.all of the current batch resolves:
\* the next batch, or the verification of the parts and the call of
\* /api/multipart-upload/complete
AfterBatch(tasks, parts) ==
    LET nxt == mpCurrentPart + BatchSize(mpFile)
        failedParts == Cardinality({ p \in DOMAIN tasks :
                                        tasks[p].status = "failed" })
    IN  IF nxt <= NumParts(mpFile)
        THEN [ pc |-> "batch", currentPart |-> nxt,
               tasks |-> WithTasks(tasks, BatchParts(mpFile, nxt)) ]
        ELSE IF failedParts > 0 \/ Len(parts) # NumParts(mpFile)
        THEN [ pc |-> "failed", currentPart |-> nxt, tasks |-> tasks ]
        ELSE [ pc |-> "complete", currentPart |-> nxt, tasks |-> tasks ]

\* one pass of the loop of uploadSinglePart(p): the part URL, the PUT, the
\* ETag.  outcome "ok": S3 stores the part and answers with its ETag;
\* "noEtag": S3 stores the part, the response shows no ETag; "fail": the
\* part URL or the PUT fails.
MpxAttempt(p, outcome) ==
    LET accepted == outcome \in { "ok", "noEtag" } /\ mpS3.state = "open"
        etag == IF outcome = "ok" THEN EtagHeader ELSE NoEtag
        uploaded == accepted /\ etag # NoEtag
        retryCount == mpTasks[p].retryCount + 1
        exhausted == ~uploaded /\ retryCount > MAX_RETRIES
        tasks == [ mpTasks EXCEPT ![p] =
                     IF uploaded
                         THEN [ retryCount |-> 0, status |-> "uploaded",
                                delay |-> 0 ]
                     ELSE IF exhausted
                         THEN [ retryCount |-> retryCount,
                                status |-> "failed", delay |-> 0 ]
                     ELSE [ retryCount |-> retryCount, status |-> "running",
                            delay |-> Backoff(retryCount) ] ]
        parts == IF uploaded
                    THEN Append(mpParts, [ PartNumber |-> p,
                                           ETag |-> StripQuotes(etag) ])
                    ELSE mpParts
        batchDone == \A q \in BatchParts(mpFile, mpCurrentPart) :
                        tasks[q].status = "uploaded"
        after == AfterBatch(tasks, parts)
    IN
    /\ p \in DOMAIN mpTasks
    /\ mpTasks[p].status = "running"
    /\ mpS3' = IF accepted THEN [ mpS3 EXCEPT !.stored = @ \cup { p } ]
                           ELSE mpS3
    /\ mpParts' = parts
    /\ IF mpPc = "batch" /\ exhausted
          THEN /\ mpPc' = "failed"
               /\ mpState' = "FAILED"
               /\ mpTasks' = tasks
               /\ mpCurrentPart' = mpCurrentPart
          ELSE IF mpPc = "batch" /\ uploaded /\ batchDone
          THEN /\ mpPc' = after.pc
               /\ mpCurrentPart' = after.currentPart
               /\ mpTasks' = after.tasks
               /\ mpState' = CASE after.pc = "complete" -> "COMPLETING"
                               [] after.pc = "failed" -> "FAILED"
                               [] OTHER -> "IN_PROGRESS"
          ELSE /\ mpPc' = mpPc
               /\ mpCurrentPart' = mpCurrentPart
               /\ mpTasks' = tasks
               /\ mpState' = IF accepted /\ mpState = "INITIATED"
                                THEN "IN_PROGRESS" ELSE mpState
    /\ mpFrame

\* POST /api/multipart-upload/complete has answered; s3Ok: S3 is reachable
MpxComplete(s3Ok) ==
    /\ mpPc = "complete"
    /\ IF s3Ok /\ S3CompleteAccepts(mpS3, mpParts)
          THEN /\ mpS3' = [ mpS3 EXCEPT !.state = "completed",
                                        !.completion = "ok" ]
               /\ mpPc' = "done"
               /\ mpState' = "COMPLETE"
          ELSE /\ mpS3' = [ mpS3 EXCEPT !.completion =
                               IF s3Ok THEN "rejected" ELSE "unreachable" ]
               /\ mpPc' = "failed"
               /\ mpState' = "FAILED"
    /\ UNCHANGED << mpTasks, mpParts, mpCurrentPart >>
    /\ mpFrame

AttemptOutcomes == { "ok", "noEtag", "fail" }

NextMultipart ==
    \/ \E ok \in BOOLEAN : MpxInit(ok)
    \/ \E p \in DOMAIN mpTasks, outcome \in AttemptOutcomes :
          MpxAttempt(p, outcome)
    \/ \E s3Ok \in BOOLEAN : MpxComplete(s3Ok)

SpecMultipart == InitMultipart /\ [][NextMultipart]_vars

\* the orchestrator with, in addition, the smallest file that gets parts of
\* 25 MiB (a deployment whose maxFileSize is above the default 500 MiB)
BatchFiles == MpFiles \cup { ByteFile(500 * MiB + 1) }

InitBatches ==
    /\ USE_S3 = TRUE
    /\ InitStore
    /\ InitClient
    /\ InitRequests
    /\ selIn = None
    /\ selOut = None
    /\ rangeReq = None
    /\ rangeRes = None
    /\ mpFile \in BatchFiles
    /\ mpPc = "init"
    /\ mpTasks = << >>
    /\ mpParts = << >>
    /\ mpCurrentPart = 1
    /\ mpS3 = [ state |-> "none", stored |-> {}, completion |-> "none" ]
    /\ mpState = "NONE"
    /\ InitServerIdle
    /\ InitProxyIdle
    /\ InitSlicesIdle
    /\ InitSyncIdle

SpecBatches == InitBatches /\ [][NextMultipart]_vars

\* an attempt of some call in progress comes to an end: the requests return
\* or fail, the PUT is aborted after five minutes, the backoff timer fires
SpecMultipartFair ==
    /\ SpecMultipart
    /\ WF_vars(\E p \in DOMAIN mpTasks, outcome \in AttemptOutcomes :
                  MpxAttempt(p, outcome))

\* ------------------------------------------------------------------------
\* Server: upload requests of any HTTP client, handled concurrently
\* (POST /api/multipart-upload/init, POST /api/videos, POST /api/videos/s3,
\* POST /api/direct-upload/register), next to the modal's size check
\* ------------------------------------------------------------------------

\* objects browsers have put into the bucket and may register
RegKeys ==
    { S3Key(NameOf(1, ServerAssistedDirect)),
      S3Key(NameOf(1, BrowserDirectMultipart)) }

\* file sizes a request may declare or carry
RequestSizes == { 10 * MiB, MAX_FILE_SIZE, MAX_FILE_SIZE + 1 }

\* the two registration endpoints
RegisterEndpoints == { "/api/videos/s3", "/api/direct-upload/register" }

\* a file path on the server's disk
Path(dir, name) == [ dir |-> dir, name |-> name ]

\* multer diskStorage: uploads/<randomUUID()><ext>
UploadPath(id) == Path("uploads", NameOf(id, ServerRelayed))

\* temporary file of a registration: uploads/temp-<randomUUID()>.mp4 for
\* POST /api/videos/s3, temp-videos/<path.basename(key)> for
\* POST /api/direct-upload/register
TempPath(endpoint, key, id) ==
    IF endpoint = "/api/videos/s3"
        THEN Path("uploads", NameOf(id, "temp"))
        ELSE Path("temp-videos", Basename(key))

InitStatusNoSizeCheck(fileSize, declared, named, s3Ok) ==
    IF MultipartInitRefused \/ ~named THEN 400
    ELSE IF s3Ok THEN 200 ELSE 500

\* POST /api/multipart-upload/init: 400 when multipart or S3 is disabled or
\* fileName / fileType is missing, 413 when the body declares a fileSize
\* above MAX_FILE_SIZE, then initiateMultipartUpload (500 when it throws)
InitStatus(fileSize, declared, named, s3Ok) ==
    IF MultipartInitRefused \/ ~named THEN 400
    ELSE IF declared /\ fileSize > MAX_FILE_SIZE THEN 413
    ELSE IF s3Ok THEN 200 ELSE 500

\* POST /api/videos up to the stored file: the content-length middleware,
\* then multer with limits.fileSize (a file that passes the limit is removed
\* again), then the write to the uploads directory
Admit(fileSize, hasLength, overhead, diskOk) ==
    IF hasLength /\ fileSize + overhead > MAX_FILE_SIZE THEN "tooLarge"
    ELSE IF fileSize > effectiveFileSize THEN "LIMIT_FILE_SIZE"
    ELSE IF ~diskOk THEN "failed"
    ELSE "stored"

\* uploadErrorHandler and the middleware's answer
AdmitStatus(admit) ==
    IF admit \in { "tooLarge", "LIMIT_FILE_SIZE" } THEN 413 ELSE 500

InitServer ==
    /\ USE_S3 \in BOOLEAN
    /\ localFiles = {}
    /\ remoteObjects = IF USE_S3 THEN { k.name : k \in RegKeys } ELSE {}
    /\ videos = {}
    /\ nextVideoId = 1
    /\ last = NoRequest
    /\ signedCount = 0
    /\ InitClient
    /\ InitRequests
    /\ selIn = None
    /\ selOut = None
    /\ rangeReq = None
    /\ rangeRes = None
    /\ InitMultipartIdle
    /\ InitServerIdle
    /\ InitProxyIdle
    /\ InitSlicesIdle
    /\ InitSyncIdle

srvFrame ==
    UNCHANGED << USE_S3, signedCount, clientVars, del,
                 selIn, selOut, rangeReq, rangeRes,
                 mpFile, mpPc, mpTasks, mpParts, mpCurrentPart, mpState,
                 proxyVars,
                 sliceVars,
                 syncVars >>

\* the requests still being handled, without request i
Answered(i) == [ j \in (DOMAIN reqs) \ { i } |-> reqs[j] ]

\* the requests being handled, with a new one
Received(r) ==
    [ j \in (DOMAIN reqs) \cup { reqCount + 1 } |->
        IF j \in DOMAIN reqs THEN reqs[j] ELSE r ]

\* POST /api/multipart-upload/init, the whole handler
ServeInit(fileSize, declared, named, s3Ok) ==
    LET status == InitStatus(fileSize, declared, named, s3Ok) IN
    /\ reqCount < MaxRequests
    /\ reqCount' = reqCount + 1
    /\ mpS3' = IF status = 200 THEN [ mpS3 EXCEPT !.state = "open" ] ELSE mpS3
    /\ last' = [ kind |-> "init", fileSize |-> fileSize,
                 declared |-> declared, named |-> named, status |-> status,
                 initiated |-> (status = 200) ]
    /\ UNCHANGED << storeVars, reqs, tempFiles >>
    /\ srvFrame

\* POST /api/videos up to the call of processVideoUpload
ReceiveRelay(fileSize, hasLength, overhead, diskOk) ==
    LET admit == Admit(fileSize, hasLength, overhead, diskOk)
        id == reqCount + 1
    IN
    /\ reqCount < MaxRequests
    /\ reqCount' = id
    /\ IF admit = "stored"
          THEN /\ localFiles' = localFiles \cup
                      { [ name |-> UploadPath(id).name, size |-> fileSize ] }
               /\ reqs' = Received([ kind |-> "/api/videos",
                                     key |-> LocalPath(UploadPath(id).name),
                                     path |-> UploadPath(id),
                                     pc |-> "process" ])
               /\ last' = last
          ELSE /\ localFiles' = localFiles
               /\ reqs' = reqs
               /\ last' = [ kind |-> "relay", fileSize |-> fileSize,
                            hasLength |-> hasLength,
                            status |-> AdmitStatus(admit),
                            stored |-> FALSE ]
    /\ UNCHANGED << remoteObjects, videos, nextVideoId, tempFiles, mpS3 >>
    /\ srvFrame

\* processVideoUpload for a stored file
FinishRelay(i, videoOk, thumbOk) ==
    LET n == reqs[i].path.name
        videoPath == RelayVideoPath(n, videoOk, thumbOk)
        status == RelayStatus(videoOk, thumbOk)
    IN
    /\ reqs[i].kind = "/api/videos"
    /\ remoteObjects' = IF USE_S3 /\ videoOk THEN remoteObjects \cup { n }
                                             ELSE remoteObjects
    /\ IF status = 201
          THEN /\ videos' = videos \cup { NewVideo(videoPath) }
               /\ nextVideoId' = nextVideoId + 1
          ELSE UNCHANGED << videos, nextVideoId >>
    /\ last' =
          [ kind |-> "ingest", id |-> nextVideoId, name |-> n,
            strategy |-> ServerRelayed,
            remoteWrite |-> IF ~USE_S3 THEN "disabled"
                            ELSE IF videoOk THEN "ok" ELSE "failed",
            filePath |-> videoPath, status |-> status ]
    /\ reqs' = Answered(i)
    /\ UNCHANGED << localFiles, reqCount, tempFiles, mpS3 >>
    /\ srvFrame

\* a registration request up to its download from S3
ReceiveRegister(endpoint, key) ==
    LET id == reqCount + 1 IN
    /\ reqCount < MaxRequests
    /\ reqCount' = id
    /\ IF RegisterRefused
          THEN /\ reqs' = reqs
               /\ last' = [ kind |-> "register", endpoint |-> endpoint,
                            key |-> key, status |-> 400 ]
          ELSE /\ reqs' = Received([ kind |-> endpoint, key |-> key,
                                     path |-> TempPath(endpoint, key, id),
                                     pc |-> "download" ])
               /\ last' = last
    /\ UNCHANGED << storeVars, tempFiles, mpS3 >>
    /\ srvFrame

\* downloadFileFromS3 has returned or thrown.  POST /api/videos/s3 unlinks
\* its temporary file in the catch block; POST /api/direct-upload/register
\* answers 500 and leaves the file.
DownloadDone(i, dlOk) ==
    LET r == reqs[i]
        ok == dlOk /\ r.key.name \in remoteObjects
    IN
    /\ r.kind \in RegisterEndpoints
    /\ r.pc = "download"
    /\ IF ok
          THEN /\ tempFiles' = tempFiles \cup { r.path }
               /\ reqs' = [ reqs EXCEPT ![i].pc = "thumbnail" ]
               /\ last' = last
          ELSE /\ tempFiles' = IF r.kind = "/api/videos/s3"
                                  THEN tempFiles \ { r.path }
                                  ELSE tempFiles
               /\ reqs' = Answered(i)
               /\ last' = [ kind |-> "register", endpoint |-> r.kind,
                            key |-> r.key, status |-> 500 ]
    /\ UNCHANGED << storeVars, reqCount, mpS3 >>
    /\ srvFrame

\* status of a registration that has created its record
RegisterStatus(endpoint) == IF endpoint = "/api/videos/s3" THEN 201 ELSE 200

\* the rest of a registration: thumbnail, unlink of the temporary file,
\* storage.createVideo with the key as filePath, response
FinishRegister(i) ==
    LET r == reqs[i] IN
    /\ r.kind \in RegisterEndpoints
    /\ r.pc = "thumbnail"
    /\ tempFiles' = tempFiles \ { r.path }
    /\ videos' = videos \cup { NewVideo(r.key) }
    /\ nextVideoId' = nextVideoId + 1
    /\ last' = [ kind |-> "register", endpoint |-> r.kind, key |-> r.key,
                 status |-> RegisterStatus(r.kind) ]
    /\ reqs' = Answered(i)
    /\ UNCHANGED << localFiles, remoteObjects, reqCount, mpS3 >>
    /\ srvFrame

NextServer ==
    \/ \E size \in UploadSizes : SelectFile(size)
    \/ StartUpload
    \/ \E fileSize \in RequestSizes, declared \in BOOLEAN, named \in BOOLEAN,
          s3Ok \in BOOLEAN :
            ServeInit(fileSize, declared, named, s3Ok)
    \/ \E fileSize \in RequestSizes, hasLength \in BOOLEAN,
          overhead \in FormOverheads, diskOk \in BOOLEAN :
            ReceiveRelay(fileSize, hasLength, overhead, diskOk)
    \/ \E i \in DOMAIN reqs, videoOk \in BOOLEAN, thumbOk \in BOOLEAN :
            FinishRelay(i, videoOk, thumbOk)
    \/ \E endpoint \in RegisterEndpoints, key \in RegKeys :
            ReceiveRegister(endpoint, key)
    \/ \E i \in DOMAIN reqs, dlOk \in BOOLEAN : DownloadDone(i, dlOk)
    \/ \E i \in DOMAIN reqs : FinishRegister(i)

SpecServer == InitServer /\ [][NextServer]_vars

\* ------------------------------------------------------------------------
\* Server: streamS3VideoToResponse, the object piped from S3 to the response
\* chunk by chunk (Node.js: the Body of GetObject is a Readable)
\* ------------------------------------------------------------------------

\* an object has 1 .. MaxChunks chunks
ObjectSizes == 1 .. MaxChunks

\* the delivery while s3Client.send(command) is awaited
NewDelivery(size) ==
    [ size |-> size,          \* chunks of the object
      phase |-> "fetching",   \* "fetching", then "streaming"
      read |-> 0,             \* chunks read from the S3 stream
      received |-> 0,         \* chunks the client has received
      clientOpen |-> TRUE,    \* the client's connection is open
      s3Stream |-> "none",    \* "none", "open", "ended", "destroyed", "failed"
      task |-> "pending" ]    \* the promise of the delivery

InitProxy ==
    /\ USE_S3 = TRUE
    /\ InitStore
    /\ InitClient
    /\ InitRequests
    /\ selIn = None
    /\ selOut = None
    /\ rangeReq = None
    /\ rangeRes = None
    /\ InitMultipartIdle
    /\ InitServerIdle
    /\ proxy \in { NewDelivery(size) : size \in ObjectSizes }
    /\ InitSlicesIdle
    /\ InitSyncIdle

proxyFrame ==
    UNCHANGED << USE_S3, storeVars, signedCount, clientVars, last, del,
                 selIn, selOut, rangeReq, rangeRes, mpVars, srvVars,
                 sliceVars,
                 syncVars >>

\* s3Client.send has returned or thrown.  With a Body the handler sets the
\* headers, pipes the stream into the response and only now registers the
\* listeners for 'end', 'error' and the response's 'close'.
S3Answer(ok) ==
    /\ proxy.phase = "fetching"
    /\ proxy' = IF ok
                   THEN [ proxy EXCEPT !.phase = "streaming",
                                       !.s3Stream = "open" ]
                   ELSE [ proxy EXCEPT !.phase = "streaming",
                                       !.s3Stream = "failed",
                                       !.task = "rejected" ]
    /\ proxyFrame

\* the S3 stream delivers its next chunk to the pipe
ReadChunk ==
    /\ proxy.s3Stream = "open"
    /\ proxy.read < proxy.size
    /\ proxy' = [ proxy EXCEPT !.read = @ + 1 ]
    /\ proxyFrame

\* stream.on('end'): the object has been read to its end
StreamEnd ==
    /\ proxy.s3Stream = "open"
    /\ proxy.read = proxy.size
    /\ proxy' = [ proxy EXCEPT !.s3Stream = "ended", !.task = "resolved" ]
    /\ proxyFrame

\* stream.on('error'): the read from S3 breaks
StreamError ==
    /\ proxy.s3Stream = "open"
    /\ proxy.read < proxy.size
    /\ proxy' = [ proxy EXCEPT !.s3Stream = "failed", !.task = "rejected" ]
    /\ proxyFrame

\* a chunk written to the response reaches the client
ClientReceive ==
    /\ proxy.clientOpen
    /\ proxy.received < proxy.read
    /\ proxy' = [ proxy EXCEPT !.received = @ + 1 ]
    /\ proxyFrame

\* The client closes the connection and the response emits 'close'.  The
\* listener that destroys the stream and resolves the promise exists once
\* the pipe is set up; an event emitted before that is heard by nobody, and
\* pipe() does not destroy its source when the destination has closed.
ClientClose ==
    /\ proxy.clientOpen
    /\ proxy' = IF proxy.phase = "streaming"
                   THEN [ proxy EXCEPT
                            !.clientOpen = FALSE,
                            !.s3Stream = IF @ = "open" THEN "destroyed"
                                                       ELSE @,
                            !.task = IF @ = "pending" THEN "resolved"
                                                      ELSE @ ]
                   ELSE [ proxy EXCEPT !.clientOpen = FALSE ]
    /\ proxyFrame

NextProxy ==
    \/ \E ok \in BOOLEAN : S3Answer(ok)
    \/ ReadChunk
    \/ StreamEnd
    \/ StreamError
    \/ ClientReceive
    \/ ClientClose

SpecProxy == InitProxy /\ [][NextProxy]_vars

\* ------------------------------------------------------------------------
\* Upload modal: the byte ranges uploadSinglePart slices out of the file
\* ------------------------------------------------------------------------

\* files of the multipart branch: above MULTIPART_THRESHOLD, on either side
\* of the 500 MiB step of the part size
SliceFiles ==
    { ByteFile(size) : size \in { 100 * MiB + 1, 120 * MiB, 300 * MiB - 1,
                                  500 * MiB, 500 * MiB + 1, 525 * MiB } }

Min(a, b) == IF a < b THEN a ELSE b

SliceUnclamped(file, partNumber) ==
    [ start |-> (partNumber - 1) * PartSize(file),
      end |-> (partNumber - 1) * PartSize(file) + PartSize(file) ]

\* start and end of file.slice(start, end) for a part
Slice(file, partNumber) ==
    [ start |-> (partNumber - 1) * PartSize(file),
      end |-> Min((partNumber - 1) * PartSize(file) + PartSize(file),
                  file.size) ]

InitSlices ==
    /\ USE_S3 = TRUE
    /\ InitStore
    /\ InitClient
    /\ InitRequests
    /\ selIn = None
    /\ selOut = None
    /\ rangeReq = None
    /\ rangeRes = None
    /\ InitMultipartIdle
    /\ InitServerIdle
    /\ InitProxyIdle
    /\ InitSyncIdle
    /\ slices \in { [ file |-> f, parts |-> << >>, all |-> FALSE ] :
                      f \in SliceFiles }

\* the slice of the next part number, up to numParts
SliceNext ==
    LET partNumber == Len(slices.parts) + 1 IN
    /\ partNumber <= NumParts(slices.file)
    /\ slices' = [ slices EXCEPT
                     !.parts = Append(@, Slice(slices.file, partNumber)),
                     !.all = (partNumber = NumParts(slices.file)) ]
    /\ UNCHANGED << USE_S3, storeVars, signedCount, clientVars, last, del,
                    selIn, selOut, rangeReq, rangeRes, mpVars, srvVars,
                    proxyVars, syncVars >>

NextSlices == SliceNext

SpecSlices == InitSlices /\ [][NextSlices]_vars

\* ------------------------------------------------------------------------
\* Properties
\* ------------------------------------------------------------------------

\* C1: with the remote store available, every accepted size s gets exactly
\* one first strategy: ServerRelayed for s <= 50 MiB, ServerAssistedDirect
\* for 50 MiB < s <= 150 MiB, BrowserDirectMultipart for s > 150 MiB; and for
\* two accepted sizes the larger never gets a lower tier than the smaller.
C1_StrategyBySize ==
    selOut # None =>
        LET tier(st) == CASE st = ServerRelayed -> 1
                          [] st = ServerAssistedDirect -> 2
                          [] st = BrowserDirectMultipart -> 3
            accepted(s) == s <= 500 * MiB
        IN  /\ \A i \in 1 .. 2 :
                  accepted(selIn[i]) =>
                      /\ selOut[i] \in Strategies
                      /\ selOut[i] = ServerRelayed
                            <=> selIn[i] <= 50 * MiB
                      /\ selOut[i] = ServerAssistedDirect
                            <=> (selIn[i] > 50 * MiB /\ selIn[i] <= 150 * MiB)
                      /\ selOut[i] = BrowserDirectMultipart
                            <=> selIn[i] > 150 * MiB
            /\ (accepted(selIn[1]) /\ accepted(selIn[2])
                    /\ selIn[1] <= selIn[2])
                  => tier(selOut[1]) <= tier(selOut[2])

\* C1: a file of exactly 50 MiB and one a byte larger have been dispatched
C1_Witness ==
    /\ selOut # None
    /\ selIn = << 50 * MiB, 50 * MiB + 1 >>
    /\ selOut = << ServerRelayed, ServerAssistedDirect >>

\* C2: the strategies of one upload are attempted in the order
\* BrowserDirectMultipart, ServerAssistedDirect, ServerRelayed, each only
\* after the one before it, and the upload is reported as failed only after
\* ServerRelayed has been attempted.
C2_FallbackChain ==
    /\ \A i \in 1 .. (Len(attempts) - 1) :
          \/ /\ attempts[i] = BrowserDirectMultipart
             /\ attempts[i + 1] = ServerAssistedDirect
          \/ /\ attempts[i] = ServerAssistedDirect
             /\ attempts[i + 1] = ServerRelayed
    /\ pc = "failed" =>
          /\ attempts # << >>
          /\ attempts[Len(attempts)] = ServerRelayed

\* C2: an upload that started with the browser-direct strategy has failed
\* after going through all three strategies
C2_Witness ==
    /\ pc = "failed"
    /\ attempts = << BrowserDirectMultipart, ServerAssistedDirect,
                     ServerRelayed >>

\* C3: with S3 disabled no endpoint issues a signed URL or a multipart
\* session, nothing reaches the bucket, every record holds a local path, and
\* an upload that succeeds has been transferred by ServerRelayed.
C3_NoRemoteWhenDisabled ==
    ~USE_S3 =>
        /\ signedCount = 0
        /\ remoteObjects = {}
        /\ \A v \in videos : ~v.filePath.remote
        /\ pc \in { "direct_post", "direct_register", "assisted_put",
                    "assisted_register", "mp_parts", "mp_complete" } => FALSE
        /\ pc = "done" => attempts[Len(attempts)] = ServerRelayed
        /\ last.kind = "ingest" => last.strategy = ServerRelayed

\* C3: with S3 disabled a large file has been refused by the two remote
\* strategies and stored through POST /api/videos
C3_Witness ==
    /\ ~USE_S3
    /\ pc = "done"
    /\ attempts = << BrowserDirectMultipart, ServerAssistedDirect,
                     ServerRelayed >>
    /\ last.kind = "ingest"
    /\ last.status = 201

\* C4: a relayed ingest records the S3 key exactly when its upload of the
\* video to S3 succeeded; when that upload fails the record holds the local
\* file name and the response is still 201.
C4_RelayCanonicalReference ==
    (last.kind = "ingest" /\ last.strategy = ServerRelayed) =>
        /\ last.filePath.remote <=> last.remoteWrite = "ok"
        /\ last.remoteWrite = "ok" =>
              /\ last.filePath = S3Key(last.name)
              /\ last.name \in remoteObjects
        /\ last.remoteWrite # "ok" =>
              /\ last.filePath = LocalPath(last.name)
              /\ last.status = 201
        /\ \E v \in videos : v.id = last.id /\ v.filePath = last.filePath

\* C4: a relayed ingest whose upload to S3 failed has answered 201
C4_Witness ==
    /\ last.kind = "ingest"
    /\ last.strategy = ServerRelayed
    /\ last.remoteWrite = "failed"
    /\ last.status = 201
    /\ ~last.filePath.remote

\* C5 (as stated): every successful ingest, by whichever strategy, leaves the
\* uploads directory holding a copy of the video.
C5_LocalCopyAfterEveryIngest ==
    (last.kind = "ingest" /\ last.status = 201) => LocalExists(last.name)

\* C6: when the upload to S3 fails during a relayed ingest the response is
\* still 201 and the file is in the uploads directory; a later streaming
\* request for the file of such a record (a local path recorded while S3 is
\* enabled) is answered from the local file with 200 or 206.
C6_RemoteFailureServedLocally ==
    /\ (last.kind = "ingest" /\ last.strategy = ServerRelayed
            /\ last.remoteWrite = "failed") =>
          /\ last.status = 201
          /\ LocalExists(last.name)
          /\ \E v \in videos : v.id = last.id
    /\ (last.kind = "stream" /\ USE_S3
            /\ \E v \in videos : /\ ~v.filePath.remote
                                 /\ Basename(v.filePath) = last.name) =>
          /\ last.source = "LOCAL_FILE"
          /\ last.status \in { 200, 206 }

\* C6: the file of a record whose upload to S3 failed has been streamed
C6_Witness ==
    /\ USE_S3
    /\ last.kind = "stream"
    /\ \E v \in videos : /\ ~v.filePath.remote
                         /\ Basename(v.filePath) = last.name
    /\ last.name \notin remoteObjects
    /\ last.status = 206

\* C7: a delete of an existing record answers 204 exactly when the record
\* has been removed, whatever the clean-up did; the local file is gone when
\* its unlink worked and the S3 object is gone when its delete worked, each
\* independently of the other; a video that never had an S3 object is gone
\* once its local file is unlinked.
C7_DeleteIndependentCleanup ==
    (last.kind = "delete" /\ last.found) =>
        /\ last.status = 204 <=> last.removed
        /\ last.removed
        /\ last.unlinkOk => ~last.localAfter
        /\ (last.s3Ok /\ last.filePath.remote) => ~last.remoteAfter
        /\ (~last.remoteBefore /\ last.unlinkOk) =>
              /\ ~last.localAfter
              /\ ~last.remoteAfter
              /\ last.status = 204

\* C7: the S3 delete failed, the local unlink worked, the answer is 204
C7_Witness ==
    /\ last.kind = "delete"
    /\ last.found
    /\ last.s3Tried
    /\ ~last.s3Ok
    /\ last.unlinkOk
    /\ last.filePath.remote
    /\ last.localBefore
    /\ ~last.localAfter
    /\ last.remoteAfter
    /\ last.status = 204

\* C8 (as stated): the streaming handler serves the local file whenever it
\* exists, else redirects to a signed URL whenever the bucket holds the
\* object, else answers 404.
C8_ResolverOrder ==
    last.kind = "stream" =>
        /\ last.localExisted =>
              /\ last.source = "LOCAL_FILE"
              /\ last.status \in { 200, 206 }
        /\ (~last.localExisted /\ last.remoteExisted) =>
              /\ last.source = "REMOTE_REDIRECT"
              /\ last.status = 302
        /\ (~last.localExisted /\ ~last.remoteExisted) =>
              /\ last.source = "NOT_FOUND"
              /\ last.status = 404

\* C9 (as stated): whenever the streaming handler answers 404 the file is
\* absent from the uploads directory and from the bucket.
C9_NotFoundMeansAbsent ==
    (last.kind = "stream" /\ last.status = 404) =>
        /\ ~last.localExisted
        /\ ~last.remoteExisted

\* C10: for a file of N bytes and Range: bytes=a-b with 0 <= a <= b < N
\* (b = N - 1 when the header leaves it out) the response is 206 with
\* Content-Range "bytes a-b/N", Content-Length b - a + 1 and exactly the
\* bytes a..b; bytes=100-199 of 1000 bytes gives 100 bytes and
\* "bytes 100-199/1000"; without a Range header it is 200 with
\* Content-Length N and the whole file.
C10_RangeResponse ==
    rangeRes # None =>
        LET N == rangeReq.size
            h == rangeReq.range
            r == rangeRes.res
        IN  /\ h = NoHeader =>
                  /\ r.status = 200
                  /\ r.contentLength = N
                  /\ rangeRes.body = FileBytes(N)
            /\ \A a \in RangeNums, b \in RangeNums :
                  (a <= b /\ b < N
                      /\ h = BytesEq \o NumToString(a) \o << "-" >>
                                     \o NumToString(b)) =>
                      /\ r.status = 206
                      /\ r.contentRange =
                            BytesSp \o NumToString(a) \o << "-" >>
                                \o NumToString(b) \o << "/" >>
                                \o NumToString(N)
                      /\ r.contentLength = b - a + 1
                      /\ rangeRes.body = [ i \in 1 .. (b - a + 1) |->
                                              FileBytes(N)[a + i] ]
            /\ \A a \in RangeNums :
                  (a < N /\ h = BytesEq \o NumToString(a) \o << "-" >>) =>
                      /\ r.status = 206
                      /\ r.contentRange =
                            BytesSp \o NumToString(a) \o << "-" >>
                                \o NumToString(N - 1) \o << "/" >>
                                \o NumToString(N)
                      /\ r.contentLength = N - a
                      /\ rangeRes.body = [ i \in 1 .. (N - a) |->
                                              FileBytes(N)[a + i] ]
            /\ (N = 1000
                  /\ h = << "b", "y", "t", "e", "s", "=",
                            "1", "0", "0", "-", "1", "9", "9" >>) =>
                      /\ r.status = 206
                      /\ r.contentLength = 100
                      /\ r.contentRange =
                            << "b", "y", "t", "e", "s", " ", "1", "0", "0",
                               "-", "1", "9", "9", "/", "1", "0", "0", "0" >>
                      /\ Len(rangeRes.body) = 100
                      /\ rangeRes.body[1] = 100
                      /\ rangeRes.body[100] = 199

\* C10: bytes 100-199 of a file of 1000 bytes have been served
C10_Witness ==
    /\ rangeRes # None
    /\ rangeReq.size = 1000
    /\ rangeReq.range = << "b", "y", "t", "e", "s", "=",
                           "1", "0", "0", "-", "1", "9", "9" >>
    /\ rangeRes.res.status = 206
    /\ Len(rangeRes.body) = 100

\* C11 (as stated): /api/multipart-upload/complete is called only once every
\* part number 1..ceil(size/partSize) is in the parts array with a non-empty
\* ETag; a completion that carries all the parts and reaches S3 succeeds;
\* and S3 never finalizes the object when a part number is missing.
C11_CompleteWithAllParts ==
    LET recorded == { mpParts[i].PartNumber : i \in 1 .. Len(mpParts) }
        allParts == /\ recorded = 1 .. NumParts(mpFile)
                    /\ \A i \in 1 .. Len(mpParts) : mpParts[i].ETag # << >>
    IN  mpFile # None =>
          /\ mpState \in { "COMPLETING", "COMPLETE" } => allParts
          /\ mpS3.completion # "none" => allParts
          /\ (allParts /\ mpS3.completion \in { "ok", "rejected" }) =>
                mpS3.completion = "ok"
          /\ mpS3.state = "completed" => allParts

\* C12 (as stated): once a part has exhausted its retries the session is
\* FAILED and the multipart upload has been aborted in S3.
C12_AbortOnExhaustedPart ==
    (\E p \in DOMAIN mpTasks : mpTasks[p].status = "failed") =>
        /\ mpState = "FAILED"
        /\ mpS3.state = "aborted"

\* C19 (as stated): the session state only moves forward through INITIATED,
\* IN_PROGRESS, COMPLETING to COMPLETE, FAILED or ABORTED, and once it is
\* COMPLETE, FAILED or ABORTED S3 accepts no further part, the parts array
\* does not grow and complete is not called.
C19_SessionStateMachine ==
    [][ LET rank(st) == CASE st = "NONE" -> 0
                          [] st = "INITIATED" -> 1
                          [] st = "IN_PROGRESS" -> 2
                          [] st = "COMPLETING" -> 3
                          [] OTHER -> 4
            terminal(st) == st \in { "COMPLETE", "FAILED", "ABORTED" }
        IN  /\ mpState' # mpState => rank(mpState) < rank(mpState')
            /\ mpState' = "COMPLETE" => mpState \in { "COMPLETING", "COMPLETE" }
            /\ terminal(mpState) =>
                  /\ mpState' = mpState
                  /\ mpS3' = mpS3
                  /\ mpParts' = mpParts
                  /\ mpPc' # "complete" ]_vars

\* C20: when ceil(size/partSize) exceeds 10,000 the upload fails right after
\* the initiation, outside the retry loop: no uploadSinglePart call is
\* started, no part reaches S3 and the parts array stays empty.
C20_TooManyPartsBeforeAnyPart ==
    (mpFile # None /\ NumParts(mpFile) > 10000) =>
        /\ mpPc \in { "init", "failed" }
        /\ mpTasks = << >>
        /\ mpParts = << >>
        /\ mpS3.stored = {}
        /\ mpS3.completion = "none"
        /\ mpS3.state = "open" => (mpPc = "failed" /\ mpState = "FAILED")

\* C20: a file that needs 10,001 parts of 25 MiB has been initiated and has
\* failed
C20_Witness ==
    /\ mpFile # None
    /\ NumParts(mpFile) = 10001
    /\ mpS3.state = "open"
    /\ mpPc = "failed"

C15_OneRecordPerObject ==
    \A v \in videos, w \in videos : v.filePath = w.filePath => v.id = w.id

\* C16 (as stated): no two requests being handled write to, or delete, the
\* same local file.
C16_NoSharedLocalFile ==
    \A i \in DOMAIN reqs, j \in DOMAIN reqs :
        i # j => reqs[i].path # reqs[j].path

\* C17 (as stated): a file of at most 50 MiB is uploaded by the relayed
\* request alone and its record holds the local path.
C17_SmallFileRecordedLocally ==
    (attempts # << >> /\ selectedFile <= MEDIUM_FILE_THRESHOLD) =>
        /\ attempts = << ServerRelayed >>
        /\ (pc = "done" /\ last.kind = "ingest") =>
              /\ last.strategy = ServerRelayed
              /\ last.filePath = LocalPath(last.name)

\* C17 (amended): a file of at most 50 MiB is uploaded by the relayed request
\* alone; its record holds the S3 key when S3 is enabled and the server's
\* upload of the video to S3 succeeded, and the local path otherwise.
C17_SmallFileRelayedOnce ==
    (attempts # << >> /\ selectedFile <= MEDIUM_FILE_THRESHOLD) =>
        /\ attempts = << ServerRelayed >>
        /\ pc \in { "relay_send", "relay_process", "done", "failed" }
        /\ signedCount = 0
        /\ (pc = "done" /\ last.kind = "ingest") =>
              /\ last.strategy = ServerRelayed
              /\ last.status = 201
              /\ last.remoteWrite = "ok" => USE_S3
              /\ last.filePath = IF last.remoteWrite = "ok"
                                    THEN S3Key(last.name)
                                    ELSE LocalPath(last.name)
              /\ \E v \in videos :
                    v.id = last.id /\ v.filePath = last.filePath

\* C17: a 10 MiB file has been relayed with S3 enabled and its record holds
\* the S3 key
C17_Witness ==
    /\ pc = "done"
    /\ selectedFile = 10 * MiB
    /\ attempts = << ServerRelayed >>
    /\ last.kind = "ingest"
    /\ last.remoteWrite = "ok"
    /\ last.filePath = S3Key(last.name)

\* C18 (as stated): for a file above 50 MiB and of at most 150 MiB,
\* ServerAssistedDirect asks for one signed URL and PUTs the whole file to it
\* (no multipart session), and the record registered afterwards holds the
\* S3 key.
C18_OneSignedUrl ==
    ( /\ attempts # << >>
      /\ Current = ServerAssistedDirect
      /\ selectedFile > MEDIUM_FILE_THRESHOLD
      /\ selectedFile <= LARGE_FILE_THRESHOLD ) =>
        /\ pc \notin { "mp_init", "mp_parts", "mp_complete" }
        /\ signedCount <= 1
        /\ (pc = "done" /\ last.kind = "ingest") =>
              /\ signedCount = 1
              /\ last.filePath = S3Key(last.name)

\* C18 (amended): for a file above 50 MiB and of at most 100 MiB,
\* ServerAssistedDirect asks for one signed URL and PUTs the whole file to
\* it; above 100 MiB and up to 150 MiB it runs a multipart session instead
\* (the initiation and one signed URL for each part of 10 MiB); in both cases
\* the record registered afterwards holds the S3 key.
C18_OneSignedUrlUpToMultipartThreshold ==
    ( /\ attempts # << >>
      /\ Current = ServerAssistedDirect
      /\ selectedFile > MEDIUM_FILE_THRESHOLD
      /\ selectedFile <= LARGE_FILE_THRESHOLD ) =>
        /\ attempts = << ServerAssistedDirect >>
        /\ selectedFile <= 100 * MiB =>
              /\ pc \notin { "mp_init", "mp_parts", "mp_complete" }
              /\ signedCount <= 1
              /\ pc \in { "assisted_put", "assisted_register", "done" } =>
                    signedCount = 1
        /\ selectedFile > 100 * MiB =>
              /\ pc \notin { "assisted_url", "assisted_put" }
              /\ pc \in { "mp_complete", "assisted_register", "done" } =>
                    signedCount =
                        1 + (selectedFile + 10 * MiB - 1) \div (10 * MiB)
        /\ (pc = "done" /\ last.kind = "ingest") =>
              /\ last.strategy = ServerAssistedDirect
              /\ last.filePath = S3Key(last.name)
              /\ \E v \in videos :
                    v.id = last.id /\ v.filePath = last.filePath

\* C18: a 120 MiB file has been uploaded through a multipart session of 12
\* parts and registered with its S3 key
C18_Witness ==
    /\ pc = "done"
    /\ selectedFile = 120 * MiB
    /\ attempts = << ServerAssistedDirect >>
    /\ signedCount = 13
    /\ last.kind = "ingest"
    /\ last.filePath = S3Key(last.name)

C22_RetryWithBackoff ==
    /\ [](\A p \in DOMAIN mpTasks :
            LET t == mpTasks[p] IN
            /\ t.status = "running" =>
                  /\ t.retryCount \in 0 .. 3
                  /\ t.delay = CASE t.retryCount = 0 -> 0
                                 [] t.retryCount = 1 -> 1000
                                 [] t.retryCount = 2 -> 2000
                                 [] t.retryCount = 3 -> 4000
            /\ t.status = "failed" => t.retryCount = 4
            /\ t.status = "uploaded" =>
                  \E i \in 1 .. Len(mpParts) : mpParts[i].PartNumber = p)
    /\ <>[](\A p \in DOMAIN mpTasks : mpTasks[p].status # "running")

\* C22: part 1 has failed four times while part 2, started with it, is at
\* its third retry
C22_Witness ==
    /\ 2 \in DOMAIN mpTasks
    /\ mpTasks[1].status = "failed"
    /\ mpTasks[1].retryCount = 4
    /\ mpTasks[2].status = "running"
    /\ mpTasks[2].retryCount = 3
    /\ mpTasks[2].delay = 4000

\* C23: the calls of uploadSinglePart in progress are never more than the
\* batch size, which is 2 for a file above 500 MiB (parts of 25 MiB) and 3
\* for the other files of the multipart branch (parts of 10 MiB); the calls
\* started are those of the batches up to the current one, and every call of
\* an earlier batch has uploaded its part.
C23_BoundedBatches ==
    mpFile # None =>
        LET b == IF mpFile.size > 500 * mpFile.mib THEN 2 ELSE 3
            running == { p \in DOMAIN mpTasks :
                            mpTasks[p].status = "running" }
        IN  /\ b \in 2 .. 4
            /\ Cardinality(running) <= b
            /\ \A p \in running : p >= mpCurrentPart
            /\ \A p \in DOMAIN mpTasks :
                  /\ p < mpCurrentPart + b
                  /\ p < mpCurrentPart => mpTasks[p].status = "uploaded"
            /\ (mpPc = "batch" /\ mpCurrentPart > 1) =>
                  \A p \in 1 .. (mpCurrentPart - 1) :
                      /\ p \in DOMAIN mpTasks
                      /\ p \in mpS3.stored

\* C23: the two calls of the second batch of a 500 MiB + 1 byte file are in
\* progress, the first batch being uploaded
C23_Witness ==
    /\ mpFile = ByteFile(500 * MiB + 1)
    /\ mpCurrentPart = 3
    /\ DOMAIN mpTasks = 1 .. 4
    /\ mpTasks[3].status = "running"
    /\ mpTasks[4].status = "running"
    /\ mpTasks[4].retryCount = 1

C25_PartsSentAscending ==
    (mpPc = "complete" \/ mpS3.completion # "none") =>
        \A i \in 1 .. Len(mpParts), j \in 1 .. Len(mpParts) :
            i < j => mpParts[i].PartNumber < mpParts[j].PartNumber

\* C26: the slices of parts 1, 2, ... start at byte 0 and follow one another
\* without gap or overlap; every slice is non-empty; every slice but the last
\* has exactly the part size (10 MiB up to 500 MiB, 25 MiB above, at least
\* 5 MiB); the last slice ends at the file size, so the sizes add up to it.
C26_PartsTileTheFile ==
    slices # None =>
        LET f == slices.file
            ps == IF f.size > 500 * MiB THEN 25 * MiB ELSE 10 * MiB
            n == Len(slices.parts)
            part(k) == slices.parts[k]
        IN  /\ ps >= 5 * MiB
            /\ \A k \in 1 .. n :
                  /\ part(k).start = (k - 1) * ps
                  /\ part(k).end = IF k * ps < f.size THEN k * ps ELSE f.size
                  /\ part(k).start < part(k).end
                  /\ part(k).end <= f.size
                  /\ k < n => /\ part(k).end - part(k).start = ps
                              /\ part(k + 1).start = part(k).end
            /\ n >= 1 => part(1).start = 0
            /\ slices.all <=> (n >= 1 /\ part(n).end = f.size)
            /\ slices.all => n = (f.size + ps - 1) \div ps

\* C26: the 21 slices of a 500 MiB + 1 byte file have been taken, the last
\* one of a single byte
C26_Witness ==
    /\ slices # None
    /\ slices.file.size = 500 * MiB + 1
    /\ slices.all
    /\ Len(slices.parts) = 21
    /\ slices.parts[21].end - slices.parts[21].start = 1

\* C27: whatever the Range header (an end at or beyond the file size, a
\* start above the end, the suffix form, no number at all, a list of
\* ranges), a 206 of streamLocalVideoFile carries a Content-Range
\* "bytes a-b/N" with 0 <= a <= b <= N - 1 and a Content-Length between 1
\* and the file size N.
C27_PartialContentWithinFile ==
    (rangeRes # None /\ rangeRes.res.status = 206) =>
        LET N == rangeReq.size
            r == rangeRes.res
        IN  /\ \E a \in RangeNums \cup { N - 1 },
                  b \in RangeNums \cup { N - 1 } :
                  /\ a <= b
                  /\ b <= N - 1
                  /\ r.contentRange = ContentRange(a, b, N)
            /\ r.contentLength >= 1
            /\ r.contentLength <= N

\* C28: whatever the interleaving of relayed uploads and synchronisation
\* runs, no two video records refer to the same stored video file.
C28_OneRecordPerFileUnderSync ==
    \A v \in videos, w \in videos :
        Basename(v.filePath) = Basename(w.filePath) => v = w

\* C29: one run of the upload mutation, fallbacks included, stores the video
\* under at most one name and creates at most one record for it, and exactly
\* one record when it ends in success.
C29_OneRecordPerUpload ==
    /\ \A k \in 1 .. MaxUploads :
          /\ Cardinality({ v \in videos : Basename(v.filePath)[1] = k }) <= 1
          /\ Cardinality({ n \in remoteObjects
                                    \cup { f.name : f \in localFiles } :
                             n[1] = k }) <= 1
    /\ pc = "done" =>
          Cardinality({ v \in videos :
                          Basename(v.filePath)[1] = uploadsStarted }) = 1

\* C30: after any sequence of uploads, deletions and synchronisation runs,
\* the file of every video record exists in the uploads directory or in S3.
C30_EveryRecordHasAFile ==
    \A v \in videos :
        \/ LocalExists(Basename(v.filePath))
        \/ Basename(v.filePath) \in remoteObjects

====
